---------------------------- MODULE Spec2Model ----------------------------
(***************************************************************************)
(* A model of polycalc-api: the battle calculator (src/src/calc.rs), the   *)
(* unit instances it works on (src/src/units.rs) and the two routes that   *)
(* drive it (src/src/main.rs).                                             *)
(*                                                                         *)
(* Numbers.  The program computes in f32.  Here                            *)
(*   - health and max_health are integer valued (every request below gives *)
(*     integer healths, and damage is rounded before it is subtracted);    *)
(*     a health is a record [c, v]: c = "num" with the value v, or one of  *)
(*     the IEEE classes "nan", "pinf", "ninf" that a division by zero      *)
(*     brings in;                                                          *)
(*   - attack, defence and defence_with_bonus are kept in twentieths       *)
(*     (attack 2.0 is 40), which holds every product of the flag           *)
(*     multipliers 0.8, 1.5, 4.0 and the addend 0.5 exactly;               *)
(*   - the quotient inside round() is computed exactly and then rounded    *)
(*     half away from zero, as f32::round does.                            *)
(* The catalogue and the requests below are chosen so that, on every       *)
(* attack the model can reach, the f32 computation of calc.rs rounds to    *)
(* the same integer as the exact quotient (no f32 rounding error falls on  *)
(* a .5 tie, and attack_force + defence_force is zero in f32 exactly when  *)
(* it is zero here).                                                       *)
(***************************************************************************)
EXTENDS Integers, Sequences, FiniteSets, TLC

VARIABLES
    pc,          \* where the running handler is
    input,       \* the request: a BattleInput, or the arguments of a direct call
    state,       \* the BattleState the handler holds: [attackers, defender]
    idx,         \* battle_many: number of attackers already handled
    permuter,    \* the AttackerPermuter: [order, p, i, n]
    item,        \* what the last AttackerPermuter::next returned (an Option)
    yielded,     \* history: every ordering next() has returned, in order
    swaps,       \* history: the pair <<j, i>> of every order.swap(j, i)
    best_order,  \* optimise_battle: Option<Vec<usize>>
    best_state,  \* optimise_battle: Option<BattleState>
    evaluated    \* history: every [order, state] optimise_battle simulated

vars == <<pc, input, state, idx, permuter, item, yielded,
          swaps, best_order, best_state, evaluated>>

(***************************************************************************)
(* Bounds of the model.                                                    *)
(***************************************************************************)
MaxAttackers == 3      \* longest attacker list of a request
MaxN == 5              \* largest attacker count given to attacker_permuatations

(***************************************************************************)
(* Option<T>: None is the empty sequence, Some(x) is <<x>>.                *)
(***************************************************************************)
None == <<>>
Some(x) == <<x>>
IsSome(o) == o # <<>>
Unwrap(o) == o[1]

(***************************************************************************)
(* f32 values of a health field.                                           *)
(***************************************************************************)
Num(v) == [c |-> "num", v |-> v]
NaN == [c |-> "nan", v |-> 0]
PosInf == [c |-> "pinf", v |-> 0]
NegInf == [c |-> "ninf", v |-> 0]

\* x - y in IEEE arithmetic (integer valued operands, so no rounding)
FSub(x, y) ==
    IF x.c = "nan" \/ y.c = "nan" THEN NaN
    ELSE IF x.c = "num" /\ y.c = "num" THEN Num(x.v - y.v)
    ELSE IF x.c = "num" THEN (IF y.c = "pinf" THEN NegInf ELSE PosInf)
    ELSE IF y.c = "num" THEN x
    ELSE IF x.c = y.c THEN NaN
    ELSE x

\* x > y, false when either is NaN
FGt(x, y) ==
    /\ x.c # "nan"
    /\ y.c # "nan"
    /\ \/ x.c = "pinf" /\ y.c # "pinf"
       \/ x.c = "num" /\ y.c = "ninf"
       \/ x.c = "num" /\ y.c = "num" /\ x.v > y.v

\* x <= y, false when either is NaN
FLe(x, y) ==
    /\ x.c # "nan"
    /\ y.c # "nan"
    /\ ~FGt(x, y)

\* x < y, false when either is NaN
FLt(x, y) == FGt(y, x)

\* f32::round of the quotient num / den (den # 0): half away from zero
Abs(x) == IF x < 0 THEN -x ELSE x
RoundQuot(num, den) ==
    LET q == (2 * Abs(num) + Abs(den)) \div (2 * Abs(den))
    IN  IF (num < 0) = (den < 0) THEN q ELSE -q

\* a finite nonzero value times an infinity, or 0 * infinity, by p's sign
TimesInf(p) == IF p = 0 THEN NaN ELSE IF p > 0 THEN PosInf ELSE NegInf

(***************************************************************************)
(* units.rs: the catalogue (units.json is data, not code: these are the    *)
(* unit types the model loads) and the construction of a unit.             *)
(***************************************************************************)
UNIT_LIST ==
    [ warrior    |-> [health |-> 8,  attack |-> 40,  defence |-> 40, range |-> 1,
                      abilities |-> {}],
      archer     |-> [health |-> 8,  attack |-> 40,  defence |-> 20, range |-> 2,
                      abilities |-> {}],
      catapult   |-> [health |-> 8,  attack |-> 80,  defence |-> 0,  range |-> 3,
                      abilities |-> {}],
      mindbender |-> [health |-> 8,  attack |-> 0,   defence |-> 20, range |-> 1,
                      abilities |-> {"convert"}],
      icearcher  |-> [health |-> 8,  attack |-> 0,   defence |-> 20, range |-> 2,
                      abilities |-> {"freeze_area"}],
      giant      |-> [health |-> 32, attack |-> 100, defence |-> 80, range |-> 1,
                      abilities |-> {}],
      defender   |-> [health |-> 16, attack |-> 20,  defence |-> 80, range |-> 1,
                      abilities |-> {}] ]

\* ((1 << flag_num) & flags) != 0
read_flag(flags, flag_num) == (flags \div (2 ^ flag_num)) % 2 = 1

create_unit(id) ==
    LET t == UNIT_LIST[id]
    IN  [ display_name       |-> id,
          max_health         |-> t.health,
          health             |-> Num(t.health),
          attack             |-> t.attack,
          defence            |-> t.defence,
          defence_with_bonus |-> t.defence,
          forced_retaliation |-> None,
          can_retaliate      |-> (t.attack # 0) /\ (t.defence # 0),
          can_convert        |-> "convert" \in t.abilities,
          can_freeze         |-> "freeze_area" \in t.abilities,
          ranged             |-> t.range > 1,
          veteran            |-> FALSE,
          frozen             |-> FALSE,
          converted          |-> FALSE ]

apply_bit_flags(unit, flags) ==
    LET d0 == unit.defence_with_bonus
        d1 == IF read_flag(flags, 0) THEN (d0 * 4) \div 5 ELSE d0    \* *= 0.8
        d2 == IF read_flag(flags, 1) THEN (d1 * 3) \div 2 ELSE d1    \* *= 1.5
        d3 == IF read_flag(flags, 2) THEN d2 * 4 ELSE d2             \* *= 4.0
        d4 == IF read_flag(flags, 3) THEN d3 + 10 ELSE d3            \* += 0.5
        vet == read_flag(flags, 4)
    IN  [unit EXCEPT
            !.defence_with_bonus = d4,
            !.veteran = vet,
            !.max_health = IF vet THEN @ + 5 ELSE @,
            !.forced_retaliation =
                IF read_flag(flags, 5) THEN Some(TRUE)
                ELSE IF read_flag(flags, 6) THEN Some(FALSE)
                ELSE None,
            !.frozen = read_flag(flags, 7)]

(***************************************************************************)
(* calc.rs: UnitInput::to_unit and BattleInput::to_state.  A UnitInput is  *)
(* [unit, health, flags] with health an Option.                            *)
(***************************************************************************)
to_unit(ui) ==
    LET unit == apply_bit_flags(create_unit(ui.unit), ui.flags)
    IN  [unit EXCEPT !.health =
            IF IsSome(ui.health) THEN Num(Unwrap(ui.health))
            ELSE Num(unit.max_health)]

to_state(bi) ==
    [ attackers |-> [k \in 1..Len(bi.attackers) |-> to_unit(bi.attackers[k])],
      defender  |-> to_unit(bi.defender) ]

(***************************************************************************)
(* calc.rs: retaliation, attack, battle, battle_many.                      *)
(***************************************************************************)
check_retaliation(attacker, defender) ==
    IF defender.frozen \/ defender.converted THEN FALSE
    ELSE IF FLe(defender.health, Num(0)) THEN FALSE
    ELSE IF ~defender.can_retaliate THEN FALSE
    ELSE IF IsSome(attacker.forced_retaliation)
        THEN Unwrap(attacker.forced_retaliation)
    ELSE IF IsSome(defender.forced_retaliation)
        THEN Unwrap(defender.forced_retaliation)
    ELSE (~attacker.ranged) \/ defender.ranged

(***************************************************************************)
(* The two rounded products of attack().  With a = attack, h / mh the      *)
(* attacker's health ratio, d = defence_with_bonus, e = defence and        *)
(* hd / mhd the defender's health ratio (a, d, e in twentieths):           *)
(*   attack_force  = (a/20) * (h/mh)      defence_force = (d/20) * (hd/mhd)*)
(*   total_force   = 4.5 / (attack_force + defence_force)                  *)
(*                 = 90 * mh * mhd / den,  den = a*h*mhd + d*hd*mh         *)
(*   attack_force * attack * total_force    = 9*a*a*h*mhd / (40 * den)     *)
(*   defence_force * defence * total_force  = 9*d*e*hd*mh / (40 * den)     *)
(* den = 0 is the division by zero: total_force is +infinity, and each     *)
(* product is an infinity, or NaN when its other factor is zero.  A        *)
(* defender whose health is already infinite has an infinite defence_force *)
(* (NaN when d = 0) and a total_force of zero.  An attacker's health is    *)
(* never infinite, and a NaN health makes every force NaN.                 *)
(***************************************************************************)
Den(attacker, defender) ==
    attacker.attack * attacker.health.v * defender.max_health
    + defender.defence_with_bonus * defender.health.v * attacker.max_health

damage(attacker, defender) ==
    IF attacker.health.c # "num" \/ defender.health.c = "nan" THEN NaN
    ELSE IF defender.health.c # "num"
        THEN (IF defender.defence_with_bonus = 0 THEN NaN ELSE Num(0))
    ELSE IF Den(attacker, defender) = 0
        THEN TimesInf(attacker.attack * attacker.attack * attacker.health.v)
    ELSE Num(RoundQuot(9 * attacker.attack * attacker.attack
                         * attacker.health.v * defender.max_health,
                       40 * Den(attacker, defender)))

\* computed from the defender as it was before the damage was subtracted
retaliation_damage(attacker, defender) ==
    IF attacker.health.c # "num" \/ defender.health.c # "num" THEN NaN
    ELSE IF Den(attacker, defender) = 0
        THEN TimesInf(defender.defence_with_bonus * defender.defence
                        * defender.health.v)
    ELSE Num(RoundQuot(9 * defender.defence_with_bonus * defender.defence
                         * defender.health.v * attacker.max_health,
                       40 * Den(attacker, defender)))

\* a slip: the retaliation decided on the defender as it was before the damage
attack_decide_before_damage(attacker, defender) ==
    LET hit == [defender EXCEPT
                    !.health = FSub(@, damage(attacker, defender))]
    IN  IF check_retaliation(attacker, defender)
        THEN [ attacker |-> [attacker EXCEPT !.health =
                                FSub(@, retaliation_damage(attacker, defender))],
               defender |-> hit ]
        ELSE [ attacker |-> attacker, defender |-> hit ]

\* attack(&mut attacker, &mut defender): the two units as it leaves them
attack(attacker, defender) ==
    LET hit == [defender EXCEPT
                    !.health = FSub(@, damage(attacker, defender))]
    IN  IF check_retaliation(attacker, hit)
        THEN [ attacker |-> [attacker EXCEPT !.health =
                                FSub(@, retaliation_damage(attacker, defender))],
               defender |-> hit ]
        ELSE [ attacker |-> attacker, defender |-> hit ]

\* a slip: no early return for a converted defender
battle_no_converted_return(attacker, defender) ==
    LET r == IF attacker.attack > 0 THEN attack(attacker, defender)
             ELSE [attacker |-> attacker, defender |-> defender]
    IN  IF FGt(r.attacker.health, Num(0))
        THEN IF r.attacker.can_convert
             THEN [r EXCEPT !.defender.converted = TRUE]
             ELSE IF r.attacker.can_freeze
                  THEN [r EXCEPT !.defender.frozen = TRUE]
                  ELSE r
        ELSE r

\* a slip: the status flags assigned from the abilities instead of latched
battle_assign_status(attacker, defender) ==
    IF defender.converted THEN [attacker |-> attacker, defender |-> defender]
    ELSE
        LET r == IF attacker.attack > 0 THEN attack(attacker, defender)
                 ELSE [attacker |-> attacker, defender |-> defender]
        IN  IF FGt(r.attacker.health, Num(0))
            THEN [r EXCEPT !.defender.converted = r.attacker.can_convert,
                           !.defender.frozen = r.attacker.can_freeze]
            ELSE r

\* battle(&mut attacker, &mut defender): the two units as it leaves them
battle(attacker, defender) ==
    IF defender.converted THEN [attacker |-> attacker, defender |-> defender]
    ELSE
        LET r == IF attacker.attack > 0 THEN attack(attacker, defender)
                 ELSE [attacker |-> attacker, defender |-> defender]
        IN  IF FGt(r.attacker.health, Num(0))
            THEN IF r.attacker.can_convert
                 THEN [r EXCEPT !.defender.converted = TRUE]
                 ELSE IF r.attacker.can_freeze
                      THEN [r EXCEPT !.defender.frozen = TRUE]
                      ELSE r
            ELSE r

\* one pass of battle_many's loop, for the attacker at position k (1-based)
battle_step(st, k) ==
    LET r == battle(st.attackers[k], st.defender)
    IN  [ attackers |-> [st.attackers EXCEPT ![k] = r.attacker],
          defender  |-> r.defender ]

RECURSIVE battle_from(_, _)
battle_from(st, k) ==
    IF k > Len(st.attackers) THEN st
    ELSE battle_from(battle_step(st, k), k + 1)

battle_many(st) == battle_from(st, 1)

(***************************************************************************)
(* units.rs and calc.rs: which outcome is better.                          *)
(***************************************************************************)
unit_is_better_than(self, other) ==
    IF FGt(self.health, other.health) THEN Some(TRUE)
    ELSE IF FGt(other.health, self.health) THEN Some(FALSE)
    ELSE IF (~self.frozen) /\ other.frozen THEN Some(TRUE)
    ELSE IF self.frozen /\ (~other.frozen) THEN Some(FALSE)
    ELSE None

defender_is_better(self, other) ==
    LET b == unit_is_better_than(self.defender, other.defender)
    IN  IF self.defender.converted
        THEN IF ~other.defender.converted THEN Some(TRUE)
             ELSE IF IsSome(b) THEN b
             ELSE None
        ELSE IF other.defender.converted THEN Some(FALSE)
             ELSE IF IsSome(b) THEN Some(~Unwrap(b))
             ELSE None

count_dead(self) ==
    Cardinality({k \in 1..Len(self.attackers) :
                    FLt(self.attackers[k].health, Num(0))})

attackers_are_better(self, other) ==
    IF count_dead(self) < count_dead(other) THEN TRUE
    ELSE IF count_dead(other) < count_dead(self) THEN FALSE
    ELSE FALSE

is_better_than(self, other) ==
    IF IsSome(defender_is_better(self, other))
    THEN Unwrap(defender_is_better(self, other))
    ELSE attackers_are_better(self, other)

(***************************************************************************)
(* calc.rs: the AttackerPermuter.  A Vec is a sequence; Vec index k is     *)
(* sequence index k + 1.  An index out of range, or a usize that would go  *)
(* below zero, panics: next reports it in its panic field.                 *)
(***************************************************************************)
InVec(v, k) == k >= 0 /\ k < Len(v)
VecAt(v, k) == v[k + 1]
VecSet(v, k, x) == [v EXCEPT ![k + 1] = x]
VecSwap(v, j, k) == [v EXCEPT ![j + 1] = v[k + 1], ![k + 1] = v[j + 1]]

attacker_permuatations(num_attackers) ==
    [ order |-> [k \in 1..num_attackers |-> k - 1],
      p     |-> [k \in 1..(num_attackers + 1) |-> k - 1],
      i     |-> 1,
      n     |-> num_attackers ]

\* a slip in the even case: the position itself instead of position 0
swap_index_even_self(i, p) == IF (i % 2) = 1 THEN VecAt(p, i) ELSE i

\* let j = if (self.i % 2) == 1 { self.p[self.i] } else { 0 };
swap_index(i, p) == IF (i % 2) = 1 THEN VecAt(p, i) ELSE 0

\* self.i = 1; while self.p[self.i] == 0 { self.p[self.i] = self.i; self.i += 1; }
RECURSIVE reset_loop(_, _)
reset_loop(p, i) ==
    IF ~InVec(p, i) THEN [p |-> p, i |-> i, panic |-> TRUE]
    ELSE IF VecAt(p, i) = 0 THEN reset_loop(VecSet(p, i, i), i + 1)
    ELSE [p |-> p, i |-> i, panic |-> FALSE]

\* AttackerPermuter::next: the permuter as it leaves it, the item it returns,
\* the swap it made (None when it made none) and whether it panicked
next(self) ==
    IF self.i >= self.n
    THEN [permuter |-> self, item |-> None, swap |-> None, panic |-> FALSE]
    ELSE IF ~InVec(self.p, self.i) \/ VecAt(self.p, self.i) = 0
    THEN [permuter |-> self, item |-> None, swap |-> None, panic |-> TRUE]
    ELSE
        LET p1 == VecSet(self.p, self.i, VecAt(self.p, self.i) - 1)
            j  == swap_index(self.i, p1)
        IN  IF ~InVec(self.order, j) \/ ~InVec(self.order, self.i)
            THEN [permuter |-> [self EXCEPT !.p = p1], item |-> None,
                  swap |-> Some(<<j, self.i>>), panic |-> TRUE]
            ELSE
                LET order1 == VecSwap(self.order, j, self.i)
                    w == reset_loop(p1, 1)
                IN  [ permuter |-> [self EXCEPT !.order = order1,
                                                !.p = w.p, !.i = w.i],
                      item     |-> IF w.panic THEN None ELSE Some(order1),
                      swap     |-> Some(<<j, self.i>>),
                      panic    |-> w.panic ]

(***************************************************************************)
(* The requests of the model.                                              *)
(***************************************************************************)
RequestUnits ==
    { [unit |-> "warrior",    health |-> None,    flags |-> 0],
      [unit |-> "warrior",    health |-> Some(0), flags |-> 0],
      [unit |-> "warrior",    health |-> Some(4), flags |-> 32],
      [unit |-> "archer",     health |-> None,    flags |-> 64],
      [unit |-> "catapult",   health |-> None,    flags |-> 0],
      [unit |-> "mindbender", health |-> None,    flags |-> 0],
      [unit |-> "icearcher",  health |-> None,    flags |-> 128],
      [unit |-> "giant",      health |-> None,    flags |-> 17],
      [unit |-> "defender",   health |-> None,    flags |-> 14] }

SeqsUpTo(S, n) == UNION {[1..k -> S] : k \in 0..n}

BattleInputs ==
    [attackers : SeqsUpTo(RequestUnits, MaxAttackers), defender : RequestUnits]

\* the defenders a direct call of attack() is given: a unit of a request, left
\* by earlier battles at some health, converted or not
AttackDefenders ==
    { [to_unit(u) EXCEPT !.health = h, !.converted = cv] :
        u \in RequestUnits, h \in {Num(8), Num(1), Num(0)}, cv \in BOOLEAN }

AttackInputs ==
    [attacker : {to_unit(u) : u \in RequestUnits}, defender : AttackDefenders]

Unused == <<>>

(***************************************************************************)
(* The permuter on its own: a fresh AttackerPermuter driven by next().     *)
(***************************************************************************)
InitPerm ==
    /\ pc = "iterating"
    /\ \E num \in 0..MaxN : permuter = attacker_permuatations(num)
    /\ item = None
    /\ yielded = <<>>
    /\ swaps = <<>>
    /\ input = Unused
    /\ state = Unused
    /\ idx = 0
    /\ best_order = None
    /\ best_state = None
    /\ evaluated = <<>>

\* one call of next(), also after the permuter is exhausted
PermNext ==
    /\ pc \in {"iterating", "exhausted"}
    /\ LET r == next(permuter)
       IN  /\ permuter' = r.permuter
           /\ item' = r.item
           /\ yielded' = IF IsSome(r.item) THEN Append(yielded, Unwrap(r.item))
                         ELSE yielded
           /\ swaps' = IF IsSome(r.swap) THEN Append(swaps, Unwrap(r.swap))
                       ELSE swaps
           /\ pc' = IF r.panic THEN "panic"
                    ELSE IF IsSome(r.item) THEN "iterating"
                    ELSE "exhausted"
    /\ UNCHANGED <<input, state, idx, best_order, best_state, evaluated>>

NextPerm == PermNext

SpecPerm == InitPerm /\ [][NextPerm]_vars

(***************************************************************************)
(* A direct call of attack(attacker, defender).                            *)
(***************************************************************************)
InitAttack ==
    /\ pc = "attack"
    /\ input \in AttackInputs
    /\ state = [attackers |-> <<input.attacker>>, defender |-> input.defender]
    /\ idx = 0
    /\ permuter = Unused
    /\ item = None
    /\ yielded = <<>>
    /\ swaps = <<>>
    /\ best_order = None
    /\ best_state = None
    /\ evaluated = <<>>

AttackCall ==
    /\ pc = "attack"
    /\ LET r == attack(state.attackers[1], state.defender)
       IN  state' = [attackers |-> <<r.attacker>>, defender |-> r.defender]
    /\ pc' = "attack_returned"
    /\ UNCHANGED <<input, idx, permuter, item, yielded, swaps, best_order,
                   best_state, evaluated>>

NextAttack == AttackCall

SpecAttack == InitAttack /\ [][NextAttack]_vars

(***************************************************************************)
(* main.rs, POST /battle: calc_battle.                                     *)
(***************************************************************************)
InitBattle ==
    /\ pc = "calc_battle"
    /\ input \in BattleInputs
    /\ state = Unused
    /\ idx = 0
    /\ permuter = Unused
    /\ item = None
    /\ yielded = <<>>
    /\ swaps = <<>>
    /\ best_order = None
    /\ best_state = None
    /\ evaluated = <<>>

\* let mut state = units.to_state();
CalcBattleToState ==
    /\ pc = "calc_battle"
    /\ state' = to_state(input)
    /\ idx' = 0
    /\ pc' = "battle_many"
    /\ UNCHANGED <<input, permuter, item, yielded, swaps, best_order,
                   best_state, evaluated>>

\* battle_many: one pass of  for mut attacker in state.attackers.iter_mut()
BattleManyStep ==
    /\ pc = "battle_many"
    /\ idx < Len(state.attackers)
    /\ state' = battle_step(state, idx + 1)
    /\ idx' = idx + 1
    /\ UNCHANGED <<pc, input, permuter, item, yielded, swaps, best_order,
                   best_state, evaluated>>

\* battle_many returns
BattleManyReturn ==
    /\ pc = "battle_many"
    /\ idx = Len(state.attackers)
    /\ pc' = "battle_done"
    /\ UNCHANGED <<input, state, idx, permuter, item, yielded, swaps,
                   best_order, best_state, evaluated>>

NextBattle == CalcBattleToState \/ BattleManyStep \/ BattleManyReturn

SpecBattle == InitBattle /\ [][NextBattle]_vars

(***************************************************************************)
(* main.rs, POST /optim: optimise_battle.                                  *)
(***************************************************************************)
InitOptim ==
    /\ pc = "optimise_battle"
    /\ input \in BattleInputs
    /\ state = Unused
    /\ idx = 0
    /\ permuter = Unused
    /\ item = None
    /\ yielded = <<>>
    /\ swaps = <<>>
    /\ best_order = None
    /\ best_state = None
    /\ evaluated = <<>>

\* let state = units.to_state(); and the head of calc::optimise_battle(state)
OptimToState ==
    /\ pc = "optimise_battle"
    /\ state' = to_state(input)
    /\ best_order' = None
    /\ best_state' = None
    /\ permuter' = attacker_permuatations(Len(input.attackers))
    /\ pc' = "optimise_loop"
    /\ UNCHANGED <<input, idx, item, yielded, swaps, evaluated>>

\* the candidate of one ordering: pristine clones in that order, then battle_many
this_state(st, order) ==
    battle_many([ attackers |-> [k \in 1..Len(order) |->
                                    st.attackers[order[k] + 1]],
                  defender  |-> st.defender ])

\* if best_state_ref.is_some() { this_state.is_better_than(..) } else { true }
use_state(candidate, best) ==
    IF IsSome(best) THEN is_better_than(candidate, Unwrap(best)) ELSE TRUE

\* one pass of  for order in attacker_permuatations(..)  that gets an ordering
OptimiseEvaluate ==
    /\ pc = "optimise_loop"
    /\ LET r == next(permuter)
       IN  /\ IsSome(r.item) \/ r.panic
           /\ permuter' = r.permuter
           /\ item' = r.item
           /\ swaps' = IF IsSome(r.swap) THEN Append(swaps, Unwrap(r.swap))
                       ELSE swaps
           /\ IF r.panic
              THEN /\ pc' = "panic"
                   /\ UNCHANGED <<yielded, evaluated, best_order, best_state>>
              ELSE LET order == Unwrap(r.item)
                       cand == this_state(state, order)
                   IN  /\ yielded' = Append(yielded, order)
                       /\ evaluated' = Append(evaluated,
                                          [order |-> order, state |-> cand])
                       /\ IF use_state(cand, best_state)
                          THEN /\ best_state' = Some(cand)
                               /\ best_order' = Some(order)
                          ELSE UNCHANGED <<best_order, best_state>>
                       /\ pc' = "optimise_loop"
    /\ UNCHANGED <<input, state, idx>>

\* the permuter is exhausted: (best_order.unwrap(), best_state.unwrap())
OptimiseReturn ==
    /\ pc = "optimise_loop"
    /\ LET r == next(permuter)
       IN  /\ ~IsSome(r.item) /\ ~r.panic
           /\ permuter' = r.permuter
           /\ item' = r.item
    /\ pc' = IF IsSome(best_order) /\ IsSome(best_state) THEN "returned"
             ELSE "panic"
    /\ UNCHANGED <<input, state, idx, yielded, swaps, best_order, best_state,
                   evaluated>>

NextOptim == OptimToState \/ OptimiseEvaluate \/ OptimiseReturn

SpecOptim == InitOptim /\ [][NextOptim]_vars

(***************************************************************************)
(* Properties of the permuter.                                             *)
(***************************************************************************)
RECURSIVE Factorial(_)
Factorial(k) == IF k <= 0 THEN 1 ELSE k * Factorial(k - 1)

Identity(num) == [k \in 1..num |-> k - 1]

IsOrdering(o, num) ==
    /\ Len(o) = num
    /\ \A v \in 0..(num - 1) : \E k \in 1..num : o[k] = v

\* b is a with the entries at two different positions exchanged
DiffersBySwap(a, b) ==
    \E x, y \in 1..Len(a) :
        /\ x < y
        /\ a[x] # a[y]
        /\ b = [a EXCEPT ![x] = a[y], ![y] = a[x]]

\* C1: for every attacker count n >= 1, a fresh permuter driven until next()
\* returns None has produced exactly n! orderings, each a permutation of
\* 0..n-1, none of them twice.
C1_AllOrderings ==
    (pc = "exhausted" /\ permuter.n >= 1) =>
        /\ Len(yielded) = Factorial(permuter.n)
        /\ \A k \in 1..Len(yielded) : IsOrdering(yielded[k], permuter.n)
        /\ \A k, l \in 1..Len(yielded) : k # l => yielded[k] # yielded[l]

\* C8: every ordering next() returns differs from the one returned before it
\* (the first from the identity ordering 0..n-1) by one swap of two different
\* positions; next() never swaps a position with itself and never panics on
\* an index outside order or p.
C8_MinimalChange ==
    /\ pc # "panic"
    /\ \A k \in 1..Len(swaps) : swaps[k][1] # swaps[k][2]
    /\ \A k \in 1..Len(yielded) :
          DiffersBySwap(IF k = 1 THEN Identity(permuter.n) ELSE yielded[k - 1],
                        yielded[k])

\* a permuter of four attackers that has swapped at an odd and at an even i
C8_Witness ==
    /\ pc = "iterating"
    /\ permuter.n = 4
    /\ Len(yielded) >= 7
    /\ \E k \in 1..Len(swaps) : swaps[k][2] % 2 = 0 /\ swaps[k][1] = 0
    /\ \E k \in 1..Len(swaps) : swaps[k][2] % 2 = 1 /\ swaps[k][1] > 0

(***************************************************************************)
(* Properties of attack, battle and battle_many.                           *)
(***************************************************************************)
InBattleMany == pc = "battle_many" /\ pc' = "battle_many"

\* attack_force and defence_force are both zero for this pair
BothForcesZero(attacker, defender) ==
    /\ attacker.health.c = "num"
    /\ defender.health.c = "num"
    /\ attacker.attack * attacker.health.v = 0
    /\ defender.defence_with_bonus * defender.health.v = 0

IsNumber(unit) == unit.health.c = "num"

\* C4: when battle() calls attack() with attack_force and defence_force both
\* zero, no damage is dealt and the health of both units is still a number
\* afterwards.
C4_DegenerateIsZeroDamage ==
    [][ ( /\ InBattleMany
          /\ ~state.defender.converted
          /\ state.attackers[idx + 1].attack > 0
          /\ BothForcesZero(state.attackers[idx + 1], state.defender) )
        => ( /\ state'.defender.health = state.defender.health
             /\ IsNumber(state'.defender)
             /\ IsNumber(state'.attackers[idx + 1]) ) ]_vars

\* C5: once the defender is converted, every later battle() of the same
\* battle_many leaves the defender's health, frozen and converted and the
\* health of every later attacker unchanged.
C5_ConvertedIsNoOp ==
    [][ (InBattleMany /\ state.defender.converted)
        => ( /\ state'.defender.health = state.defender.health
             /\ state'.defender.frozen = state.defender.frozen
             /\ state'.defender.converted = state.defender.converted
             /\ \A k \in (idx + 1)..Len(state.attackers) :
                   state'.attackers[k].health = state.attackers[k].health ) ]_vars

\* a converter went first, then an attacker that deals damage and forces
\* retaliation has battled the converted defender
C5_Witness ==
    /\ pc = "battle_many"
    /\ idx >= 2
    /\ state.attackers[1].can_convert
    /\ state.defender.converted
    /\ state.defender.can_retaliate
    /\ state.attackers[2].attack > 0
    /\ state.attackers[2].forced_retaliation = Some(TRUE)

\* C6: attack() decides the retaliation on the defender as the damage left
\* it: when the defender's health after the damage is <= 0, or the defender is
\* frozen or converted, the attacker's health is unchanged, whatever the
\* ranged and forced_retaliation values of the two units are.
C6_NoRetaliationFromIncapacitated ==
    ( /\ pc = "attack_returned"
      /\ \/ FLe(state.defender.health, Num(0))
         \/ state.defender.frozen
         \/ state.defender.converted )
    => state.attackers[1].health = input.attacker.health

\* a melee attacker that forces retaliation has brought a defender that could
\* retaliate before the blow to a health <= 0
C6_Witness ==
    /\ pc = "attack_returned"
    /\ input.attacker.forced_retaliation = Some(TRUE)
    /\ ~input.attacker.ranged
    /\ check_retaliation(input.attacker, input.defender)
    /\ FLe(state.defender.health, Num(0))
    /\ state.attackers[1].health = input.attacker.health

\* C9: within battle_many, frozen and converted are never cleared once set
\* (also when the defender started frozen by flag bit 7), and can_retaliate of
\* every unit keeps its construction value (attack and defence both nonzero).
ConstructedCanRetaliate(ui) ==
    (UNIT_LIST[ui.unit].attack # 0) /\ (UNIT_LIST[ui.unit].defence # 0)

C9_Latches ==
    /\ [][ InBattleMany
           => ( /\ state.defender.frozen => state'.defender.frozen
                /\ state.defender.converted => state'.defender.converted ) ]_vars
    /\ [] ( pc \in {"battle_many", "battle_done"}
            => ( /\ state.defender.can_retaliate
                      = ConstructedCanRetaliate(input.defender)
                 /\ \A k \in 1..Len(state.attackers) :
                       state.attackers[k].can_retaliate
                          = ConstructedCanRetaliate(input.attackers[k]) ) )

\* a defender that started frozen has been converted by the first attacker
\* and then met an attacker that neither freezes nor converts
C9_Witness ==
    /\ pc = "battle_done"
    /\ Len(state.attackers) >= 2
    /\ read_flag(input.defender.flags, 7)
    /\ state.attackers[1].attack > 0
    /\ FGt(state.attackers[1].health, Num(0))
    /\ ~state.attackers[1].can_freeze
    /\ state.attackers[2].can_convert
    /\ state.defender.frozen
    /\ state.defender.converted

\* C10: when every attacker starts with 0 < health <= max_health and no
\* attack or defence is negative, no battle() of battle_many raises the
\* defender's health.
AttackersStartAlive ==
    \A k \in 1..Len(input.attackers) :
        LET u == to_unit(input.attackers[k])
        IN  /\ FGt(u.health, Num(0))
            /\ FLe(u.health, Num(u.max_health))
            /\ u.attack >= 0
            /\ u.defence >= 0
            /\ u.defence_with_bonus >= 0

C10_NeverHeals ==
    [][ (InBattleMany /\ AttackersStartAlive)
        => FLe(state'.defender.health, state.defender.health) ]_vars

(***************************************************************************)
(* Properties of optimise_battle.                                          *)
(***************************************************************************)
\* every ordering of num attackers, as a Vec of indices
Orderings(num) == {o \in [1..num -> 0..(num - 1)] : IsOrdering(o, num)}

\* the position of the returned order among the orderings that were evaluated
BestPosition ==
    CHOOSE k \in 1..Len(evaluated) : evaluated[k].order = Unwrap(best_order)

\* C2: the pair optimise_battle returns is the best outcome: with n >= 1
\* attackers, no ordering of the pristine attackers gives a state that
\* is_better_than the returned state.
C2_ReturnsBest ==
    (pc = "returned" /\ Len(state.attackers) >= 1) =>
        \A o \in Orderings(Len(state.attackers)) :
            ~is_better_than(this_state(state, o), Unwrap(best_state))

\* C3: with at least one attacker optimise_battle never ends without a
\* retained result, and what it returns is an ordering of all the attackers
\* with the state that ordering gives.
C3_AlwaysReturns ==
    (pc \in {"returned", "panic"} /\ Len(state.attackers) >= 1) =>
        /\ pc = "returned"
        /\ IsSome(best_order)
        /\ IsSome(best_state)
        /\ IsOrdering(Unwrap(best_order), Len(state.attackers))
        /\ Unwrap(best_state) = this_state(state, Unwrap(best_order))

\* C7: ties keep the earlier candidate: the returned state is_better_than the
\* state of every ordering evaluated before the returned order, and no
\* ordering evaluated after it has a state that is_better_than the returned one.
C7_TiesKeepEarlier ==
    (pc = "returned") =>
        /\ \A k \in 1..(BestPosition - 1) :
              is_better_than(Unwrap(best_state), evaluated[k].state)
        /\ \A k \in (BestPosition + 1)..Len(evaluated) :
              ~is_better_than(evaluated[k].state, Unwrap(best_state))

=============================================================================
